---- MODULE Spec2Model ----
(***************************************************************************)
(* A model of encapt.py: the unit loader (QuarkusBean), the agent factory  *)
(* (EncaptWorkforce._setup_workforce), the tool surface (write_file,       *)
(* create_directory, run_all_bean_tests, run_specific_bean_test,           *)
(* send_message) and the change-request driver.                            *)
(*                                                                         *)
(* Four specifications share the variables:                                *)
(*   SpecDoc    QuarkusBean.read_file on every short unit file text;       *)
(*   SpecSetup  EncaptWorkforce.__init__ on every small tree of units;     *)
(*   SpecFs     the file and test tools, called in any order;              *)
(*   SpecMsg    send_message and process_change_request, with the engine   *)
(*              taking tasks off the channel.                              *)
(*                                                                         *)
(* Python strings are sequences of one-character strings; a fixed word     *)
(* (a directory of BEANS_DIR, an agent's name, a piece of fixed wording)   *)
(* is kept as one element.  Indices handed to the string operators are     *)
(* Python's (0-based); -1 is "not found".                                  *)
(***************************************************************************)
EXTENDS Integers, Sequences, FiniteSets, TLC

\* ------------------------------------------------------------------ bounds

\* longest unit file text drawn for extract_doc_comment
MaxLen == 6

\* most files in the tree under BEANS_DIR
MaxFiles == 2

\* most tool calls in a run of the file and test tools
MaxCalls == 2

\* most calls of send_message and process_change_request in a run
MaxMsgCalls == 3

\* ------------------------------------------------------ Python str helpers

\* all strings over chars of length <= n
Strs(chars, n) == UNION {[1..k -> chars] : k \in 0..n}

Min(a, b) == IF a < b THEN a ELSE b
Max(a, b) == IF a > b THEN a ELSE b

\* s[i:j] for 0 <= i, 0 <= j (both clamped to len(s) as Python does)
Slice(s, i, j) ==
    LET lo == Min(i, Len(s))
        hi == Min(j, Len(s))
    IN  IF hi <= lo THEN <<>> ELSE [k \in 1..(hi - lo) |-> s[lo + k]]

\* sub occurs in s at 0-based index i
OccursAt(s, sub, i) ==
    /\ i >= 0
    /\ i + Len(sub) <= Len(s)
    /\ \A k \in 1..Len(sub) : s[i + k] = sub[k]

\* s.find(sub, start): a negative start counts from the end of s (and is
\* clamped to 0); the lowest index >= start where sub occurs, or -1
Find(s, sub, start) ==
    LET from == IF start < 0 THEN Max(Len(s) + start, 0) ELSE start
        hits == {i \in from..(Len(s) - Len(sub)) : OccursAt(s, sub, i)}
    IN  IF hits = {} THEN -1
        ELSE CHOOSE i \in hits : \A j \in hits : i <= j

\* s.endswith(suf)
EndsWith(s, suf) ==
    /\ Len(suf) <= Len(s)
    /\ OccursAt(s, suf, Len(s) - Len(suf))

\* the characters str.strip() removes (those of this model's alphabets)
Whitespace == {" ", "\n"}

\* s.strip()
Strip(s) ==
    LET keep == {i \in 1..Len(s) : s[i] \notin Whitespace}
    IN  IF keep = {} THEN <<>>
        ELSE LET lo == CHOOSE i \in keep : \A j \in keep : i <= j
                 hi == CHOOSE i \in keep : \A j \in keep : i >= j
             IN  [k \in 1..(hi - lo + 1) |-> s[lo + k - 1]]

VARIABLES
    file_content,   \* QuarkusBean.content: the text of the unit file read
    doc_comment,    \* QuarkusBean.doc_comment extracted from it
    doc_pc,         \* "start" before QuarkusBean.read_file, "done" after
    tree,           \* the files under BEANS_DIR: [dir, file] -> content
    beans,          \* EncaptWorkforce.beans
    workers,        \* the workers registered by add_single_agent_worker
    setup_pc,       \* "new", "loaded" (after _load_beans), "ready"
    dirs,           \* the directories that exist, each a resolved path
    files,          \* the regular files: resolved path -> text
    channel,        \* the packets posted on workforce._channel, in order
    submitted,      \* the tasks handed to workforce.process_task, in order
    tool_result,    \* the last call of a tool or of the driver, and its end
    tool_calls      \* how many such calls were made

doc_vars == <<file_content, doc_comment, doc_pc>>
setup_vars == <<tree, beans, workers, setup_pc>>

fs_vars == <<dirs, files>>
msg_vars == <<channel, submitted>>
call_vars == <<tool_result, tool_calls>>

vars == <<doc_vars, setup_vars, fs_vars, msg_vars, call_vars>>

\* ---------------------------------------------------- QuarkusBean (doc)

OpenMarker == <<"/", "*", "*">>
CloseMarker == <<"*", "/">>

\* QuarkusBean.extract_doc_comment
extract_doc_comment(content) ==
    LET start == Find(content, OpenMarker, 0)
        end == Find(content, CloseMarker, start)
    IN  IF start # -1 /\ end # -1
        THEN Strip(Slice(content, start, end + 2))
        ELSE <<>>

\* the characters unit file contents are drawn from
DocChars == {"/", "*", " ", "a"}

\* QuarkusBean.read_file: reads the file and extracts its doc comment
read_file ==
    /\ doc_pc = "start"
    /\ doc_comment' = extract_doc_comment(file_content)
    /\ doc_pc' = "done"
    /\ UNCHANGED <<file_content, setup_vars, fs_vars, msg_vars, call_vars>>

\* ------------------------------------------------ loader and factory

\* os.path.join(PROJECT_ROOT, "src", "main", "kotlin", "org", "camelai",
\* "beans") as path components; a fixed directory name is one token
BEANS_DIR ==
    << <<".">>, <<"encapt-project">>, <<"src">>, <<"main">>, <<"kotlin">>,
       <<"org">>, <<"camelai">>, <<"beans">> >>

KtSuffix == <<".", "k", "t">>

\* the directories os.walk visits: BEANS_DIR itself and one sub-directory
WalkDirs == { <<>>, << <<"sub">> >> }

\* file names found in them (a multi-letter stem is one token)
WalkFiles ==
    { <<"UserService", ".", "k", "t">>,
      <<"OrderHistoryService", ".", "k", "t">>,
      <<"UserService", ".", "v", "2", ".", "k", "t">>,
      <<".", "k", "t">>,
      <<"README", ".", "m", "d">> }

\* file texts
WalkContents ==
    { <<"/", "*", "*", " ", "manages users", " ", "*", "/", "\n", "class">>,
      <<"/", "*", "*", " ", "manages orders", " ", "*", "/">>,
      <<"class">> }

\* the places a file can be at
Places == {[dir |-> d, file |-> f] : d \in WalkDirs, f \in WalkFiles}

\* os.path.basename of a path given by its components
basename(path) == path[Len(path)]

\* s.split('.')[0]: the characters before the first '.'
SplitFirst(s, sep) ==
    LET i == Find(s, <<sep>>, 0)
    IN  IF i = -1 THEN s ELSE Slice(s, 0, i)

\* QuarkusBean.__init__
QuarkusBean(file_path, content) ==
    [file_path |-> file_path,
     name |-> SplitFirst(basename(file_path), "."),
     content |-> content,
     doc_comment |-> extract_doc_comment(content)]

\* sep.join(parts)
RECURSIVE Join(_, _)
Join(parts, sep) ==
    IF Len(parts) = 0 THEN <<>>
    ELSE IF Len(parts) = 1 THEN parts[1]
    ELSE parts[1] \o sep \o Join(Tail(parts), sep)

\* f'{b.name}: {b.doc_comment}'
PeerEntry(b) == b.name \o <<":", " ">> \o b.doc_comment

\* [b for b in seq if b.name != name]
RECURSIVE OtherBeans(_, _)
OtherBeans(seq, name) ==
    IF Len(seq) = 0 THEN <<>>
    ELSE (IF seq[1].name # name THEN <<seq[1]>> ELSE <<>>)
         \o OtherBeans(Tail(seq), name)

\* [PeerEntry(b) for b in seq]
RECURSIVE Entries(_)
Entries(seq) ==
    IF Len(seq) = 0 THEN <<>>
    ELSE <<PeerEntry(seq[1])>> \o Entries(Tail(seq))

\* the worker registered for the coordinator
ManagerWorker ==
    [description |-> <<"Manager">>,
     role_name |-> <<"Manager Agent">>,
     responsibilities |-> <<>>,
     peers |-> <<>>]

\* EncaptWorkforce._create_bean_agent: the worker registered for bean,
\* with the arguments of its system message
_create_bean_agent(bean, all_beans) ==
    [description |-> bean.name,
     role_name |-> bean.name \o <<" Agent">>,
     responsibilities |-> bean.doc_comment,
     peers |-> Join(Entries(OtherBeans(all_beans, bean.name)),
                    <<",", " ">>)]

\* the .kt files of a directory of the tree
Matching(d) ==
    {p \in DOMAIN tree : p.dir = d /\ EndsWith(p.file, KtSuffix)}

AllMatching == UNION {Matching(d) : d \in WalkDirs}

\* the orders os.walk (top-down) can yield the matching files in: the
\* files of BEANS_DIR before those of its sub-directory, any order within
\* a directory
WalkOrders ==
    {s \in [1..Cardinality(AllMatching) -> AllMatching] :
        /\ \A i, j \in DOMAIN s : i # j => s[i] # s[j]
        /\ \A i, j \in DOMAIN s :
              (Len(s[i].dir) < Len(s[j].dir)) => i < j}

\* EncaptWorkforce._load_beans
_load_beans ==
    /\ setup_pc = "new"
    /\ \E order \in WalkOrders :
          beans' = [i \in DOMAIN order |->
                      QuarkusBean(BEANS_DIR \o order[i].dir
                                      \o <<order[i].file>>,
                                  tree[order[i]])]
    /\ setup_pc' = "loaded"
    /\ UNCHANGED <<tree, workers, doc_vars, fs_vars, msg_vars, call_vars>>

\* EncaptWorkforce._setup_workforce
_setup_workforce ==
    /\ setup_pc = "loaded"
    /\ workers' = <<ManagerWorker>>
                  \o [i \in DOMAIN beans |->
                        _create_bean_agent(beans[i], beans)]
    /\ setup_pc' = "ready"
    /\ UNCHANGED <<tree, beans, doc_vars, fs_vars, msg_vars, call_vars>>

\* ----------------------------------------------------- the file system

\* s.split(sep): the pieces of s between the occurrences of sep
RECURSIVE Split(_, _)
Split(s, sep) ==
    LET i == Find(s, <<sep>>, 0)
    IN  IF i = -1 THEN <<s>>
        ELSE <<Slice(s, 0, i)>> \o Split(Slice(s, i + 1, Len(s)), sep)

\* the working directory and the root directory, as resolved paths
Cwd == << <<".">> >>
Root == << <<"/">> >>

Dot == <<".">>
DotDot == <<".", ".">>

\* the directory above loc ('..' at the root is the root; above the
\* working directory the path keeps its '..' components)
Parent(loc) ==
    IF Len(loc) > 1 /\ loc[Len(loc)] # DotDot
    THEN SubSeq(loc, 1, Len(loc) - 1)
    ELSE IF loc[1] = <<"/">> THEN loc
    ELSE Append(loc, DotDot)

\* loc is a directory, given the directories ds made so far
IsDir(loc, ds) == loc \in ds \/ loc[Len(loc)] = DotDot

\* os.path.join(BEANS_DIR, name): an absolute name discards BEANS_DIR.
\* The path is the directory its lookup starts in and its components.
os_path_join(name) ==
    IF Len(name) > 0 /\ name[1] = "/"
    THEN [start |-> Root, comps |-> Split(name, "/")]
    ELSE [start |-> Cwd, comps |-> BEANS_DIR \o Split(name, "/")]

\* The kernel's lookup of a path from loc: every component but the last
\* must be an existing directory.  Yields the resolved path, whether the
\* path names a directory by its form (it ends in '/', '.' or '..'), and
\* the error of a failed lookup ("" when there is none).
RECURSIVE Lookup(_, _, _, _)
Lookup(loc, comps, ds, fs) ==
    IF Len(comps) = 0
    THEN [err |-> "", loc |-> loc, dirform |-> TRUE]
    ELSE LET c == comps[1]
             rest == Tail(comps)
         IN  IF c = <<>> \/ c = Dot THEN Lookup(loc, rest, ds, fs)
             ELSE IF c = DotDot THEN Lookup(Parent(loc), rest, ds, fs)
             ELSE IF Len(rest) = 0
                  THEN [err |-> "", loc |-> Append(loc, c),
                        dirform |-> FALSE]
             ELSE IF IsDir(Append(loc, c), ds)
                  THEN Lookup(Append(loc, c), rest, ds, fs)
             ELSE [err |-> IF Append(loc, c) \in DOMAIN fs
                           THEN "ENOTDIR" ELSE "ENOENT",
                   loc |-> Append(loc, c), dirform |-> FALSE]

\* os.makedirs(path, exist_ok=True) from loc: makes every missing
\* directory along the path; fails where a regular file is in the way.
\* Yields the directories afterwards and the error ("" when none).
RECURSIVE MakeDirs(_, _, _, _)
MakeDirs(loc, comps, ds, fs) ==
    IF Len(comps) = 0 THEN [err |-> "", dirs |-> ds]
    ELSE LET c == comps[1]
             rest == Tail(comps)
         IN  IF c = <<>> \/ c = Dot THEN MakeDirs(loc, rest, ds, fs)
             ELSE IF c = DotDot THEN MakeDirs(Parent(loc), rest, ds, fs)
             ELSE IF Append(loc, c) \in DOMAIN fs
                  THEN [err |-> IF Len(rest) = 0 THEN "EEXIST"
                                ELSE "ENOTDIR",
                        dirs |-> ds]
             ELSE MakeDirs(Append(loc, c), rest,
                           ds \cup {Append(loc, c)}, fs)

\* fs with the file at loc holding text
WithFile(fs, loc, text) ==
    [p \in DOMAIN fs \cup {loc} |-> IF p = loc THEN text ELSE fs[p]]

\* ------------------------------------------------------ the tool surface

\* a call that returned text.format(fill)
Returned(op, args, text, fill) ==
    [op |-> op, args |-> args, outcome |-> "returned",
     text |-> text, fill |-> fill]

\* a call that raised the exception exc
Raised(op, args, exc) ==
    [op |-> op, args |-> args, outcome |-> "raised",
     text |-> exc, fill |-> <<>>]

NoCall ==
    [op |-> "none", args |-> <<>>, outcome |-> "none",
     text |-> "", fill |-> <<>>]

OnlyKt == "Error: Only .kt files are allowed."
WroteOk == "Successfully wrote content to {0}"
WriteErr == "Error writing to file: {0}"
MkdirOk == "Successfully created directory {0}"
MkdirErr == "Error creating directory: {0}"
AllTestsErr == "Error running bean tests: {0}"
OneTestErr == "Error running test for {0}: {1}"
Stdout == "{0}"

\* the guard with the extension's dot forgotten: file_name.endswith('kt')
kt_allowed_no_dot(file_name) == EndsWith(file_name, <<"k", "t">>)

\* write_file's guard: file_name.endswith('.kt')
kt_allowed(file_name) == EndsWith(file_name, KtSuffix)

\* the file after open(file_path, 'w') and file.write(content): the old
\* text is truncated away
written(old, content) == content

\* how the environment can answer open() and write()
WriteEnvs == {"ok", "EACCES", "ENOSPC"}

\* EncaptWorkforce.write_file
write_file(file_name, content, env) ==
    LET op == "write_file"
        args == <<file_name, content>>
        path == os_path_join(file_name)
        at == Lookup(path.start, path.comps, dirs, files)
        old == IF at.loc \in DOMAIN files THEN files[at.loc] ELSE <<>>
    IN  /\ tool_calls' = tool_calls + 1
        /\ UNCHANGED <<dirs, doc_vars, setup_vars, msg_vars>>
        /\ IF ~kt_allowed(file_name)
           THEN /\ tool_result' = Returned(op, args, OnlyKt, <<>>)
                /\ UNCHANGED files
           ELSE IF at.err # ""
           THEN \* open() fails: FileNotFoundError, NotADirectoryError
                /\ tool_result' = Returned(op, args, WriteErr, << <<at.err>> >>)
                /\ UNCHANGED files
           ELSE IF at.dirform \/ IsDir(at.loc, dirs)
           THEN \* open() fails: IsADirectoryError
                /\ tool_result' = Returned(op, args, WriteErr, << <<"EISDIR">> >>)
                /\ UNCHANGED files
           ELSE IF env = "EACCES"
           THEN \* open() fails: PermissionError
                /\ tool_result' = Returned(op, args, WriteErr, << <<env>> >>)
                /\ UNCHANGED files
           ELSE IF env = "ENOSPC"
           THEN \* open() truncated the file; only a part was written
                /\ \E k \in 0..Max(Len(content) - 1, 0) :
                      files' = WithFile(files, at.loc,
                                        written(old, Slice(content, 0, k)))
                /\ tool_result' = Returned(op, args, WriteErr, << <<env>> >>)
           ELSE /\ files' = WithFile(files, at.loc, written(old, content))
                /\ tool_result' = Returned(op, args, WroteOk, <<file_name>>)

\* how the environment can answer os.makedirs
MkdirEnvs == {"ok", "EACCES"}

\* EncaptWorkforce.create_directory
create_directory(dir_name, env) ==
    LET op == "create_directory"
        args == <<dir_name>>
        path == os_path_join(dir_name)
        made == MakeDirs(path.start, path.comps, dirs, files)
    IN  /\ tool_calls' = tool_calls + 1
        /\ UNCHANGED <<files, doc_vars, setup_vars, msg_vars>>
        /\ IF env = "EACCES"
           THEN /\ tool_result' = Returned(op, args, MkdirErr, << <<env>> >>)
                /\ UNCHANGED dirs
           ELSE IF made.err # ""
           THEN /\ tool_result' = Returned(op, args, MkdirErr, << <<made.err>> >>)
                /\ dirs' = made.dirs
           ELSE /\ tool_result' = Returned(op, args, MkdirOk, <<dir_name>>)
                /\ dirs' = made.dirs

\* how subprocess.run(..., check=True) can end: exit status 0, a
\* non-zero exit status (CalledProcessError), or the runner cannot be
\* started (FileNotFoundError, PermissionError: an OSError)
RunEnvs == {"exit0", "nonzero", "cannot_start"}

\* what the runner prints on its standard output
GradleOutput == <<"gradle output">>

\* EncaptWorkforce.run_all_bean_tests
run_all_bean_tests(env) ==
    LET op == "run_all_bean_tests"
    IN  /\ tool_calls' = tool_calls + 1
        /\ UNCHANGED <<fs_vars, doc_vars, setup_vars, msg_vars>>
        /\ tool_result' =
              IF env = "exit0"
              THEN Returned(op, <<>>, Stdout, <<GradleOutput>>)
              ELSE IF env = "nonzero"
              THEN Returned(op, <<>>, AllTestsErr, <<GradleOutput>>)
              ELSE Raised(op, <<>>, "FileNotFoundError")

\* EncaptWorkforce.run_specific_bean_test
run_specific_bean_test(bean_name, env) ==
    LET op == "run_specific_bean_test"
    IN  /\ tool_calls' = tool_calls + 1
        /\ UNCHANGED <<fs_vars, doc_vars, setup_vars, msg_vars>>
        /\ tool_result' =
              IF env = "exit0"
              THEN Returned(op, <<bean_name>>, Stdout, <<GradleOutput>>)
              ELSE IF env = "nonzero"
              THEN Returned(op, <<bean_name>>, OneTestErr,
                            <<bean_name, GradleOutput>>)
              ELSE Raised(op, <<bean_name>>, "FileNotFoundError")

\* ------------------------------------------ messaging and the driver

\* 'inter_agent_message_'
InterAgentPrefix ==
    <<"i", "n", "t", "e", "r", "_", "a", "g", "e", "n", "t", "_",
      "m", "e", "s", "s", "a", "g", "e", "_">>

\* 'change_request'
ChangeRequestId ==
    <<"c", "h", "a", "n", "g", "e", "_", "r", "e", "q", "u", "e", "s", "t">>

\* an id built from the sender instead of the recipient
message_task_id_by_sender(to_agent, from_agent) ==
    InterAgentPrefix \o from_agent

\* the id send_message gives the task it builds
message_task_id(to_agent, from_agent) == InterAgentPrefix \o to_agent

\* the content send_message gives the task it builds (the fixed wording
\* in four tokens)
message_task_content(from_agent, message) ==
    <<"You have received a message from ">> \o from_agent \o <<":\n\n">>
    \o message
    \o <<"\n\nPlease process this message [...] to respond to ">>
    \o from_agent
    \o <<" with your response. [...]</response>\n">>

\* workforce._channel.post_task(task, publisher_id, assignee_id): the
\* packet is put on the channel
post_task(chan, task, publisher_id, assignee_id) ==
    Append(chan, [task |-> task, publisher_id |-> publisher_id,
                  assignee_id |-> assignee_id, status |-> "enqueued"])

\* send_message with the addressing swapped: post_task(task, to_agent,
\* from_agent)
channel_after_send_swapped(chan, to_agent, from_agent, message) ==
    post_task(chan,
              [id |-> message_task_id(to_agent, from_agent),
               content |-> message_task_content(from_agent, message)],
              to_agent, from_agent)

\* the packets send_message(to_agent, from_agent, message) leaves on
\* the channel chan
channel_after_send(chan, to_agent, from_agent, message) ==
    post_task(chan,
              [id |-> message_task_id(to_agent, from_agent),
               content |-> message_task_content(from_agent, message)],
              from_agent, to_agent)

SentOk == "Message sent to {0}. A task has been created for them to respond."

\* EncaptWorkforce.send_message
send_message(to_agent, from_agent, message) ==
    /\ tool_calls' = tool_calls + 1
    /\ channel' = channel_after_send(channel, to_agent, from_agent, message)
    /\ tool_result' = Returned("send_message",
                               <<to_agent, from_agent, message>>,
                               SentOk, <<to_agent>>)
    /\ UNCHANGED <<submitted, fs_vars, doc_vars, setup_vars>>

\* the task process_change_request builds
change_request_task(request) ==
    [id |-> ChangeRequestId,
     content |-> <<"Process the following change request:\n\n    ">>
                 \o request \o <<"\n\n    Analyze which beans [...]\n\n">>]

\* EncaptWorkforce.process_change_request: the root task is handed to
\* workforce.process_task, whose result is returned
process_change_request(request) ==
    /\ tool_calls' = tool_calls + 1
    /\ submitted' = Append(submitted, change_request_task(request))
    /\ tool_result' = Returned("process_change_request", <<request>>,
                               "{0}", <<ChangeRequestId>>)
    /\ UNCHANGED <<channel, fs_vars, doc_vars, setup_vars>>

\* the packets of chan that are in status st
InStatus(chan, st) == {i \in DOMAIN chan : chan[i].status = st}

\* the oldest packet among a non-empty set of them
Oldest(is) == CHOOSE i \in is : \A j \in is : i <= j

\* The engine's side of the channel: the addressee's agent loop takes
\* the oldest packet waiting on the channel
engine_consume ==
    /\ InStatus(channel, "enqueued") # {}
    /\ channel' = [channel EXCEPT
                      ![Oldest(InStatus(channel, "enqueued"))].status =
                          "consumed"]
    /\ UNCHANGED <<submitted, call_vars, fs_vars, doc_vars, setup_vars>>

\* The engine's side of the channel: the oldest task being processed
\* gets its result
engine_finish ==
    /\ InStatus(channel, "consumed") # {}
    /\ channel' = [channel EXCEPT
                      ![Oldest(InStatus(channel, "consumed"))].status =
                          "terminal"]
    /\ UNCHANGED <<submitted, call_vars, fs_vars, doc_vars, setup_vars>>

\* names handed to write_file
FileNames ==
    { <<"a", ".", "k", "t">>,
      <<".", "k", "t">>,
      <<".", "/", "a", ".", "k", "t">>,
      <<"d", "/", "a", ".", "k", "t">>,
      <<".", ".", "/", "a", ".", "k", "t">>,
      <<"/", "a", ".", "k", "t">>,
      <<>>,
      <<"k", "t">>,
      <<"a", ".", "k", "t", "s">>,
      <<"a", ".", "K", "T">>,
      <<"a", ".", "k", "t", "/">> }

\* names handed to create_directory
DirNames ==
    { <<"d">>, <<"a", ".", "k", "t">>, <<".", ".", "/", "d">>, <<>> }

\* texts handed to write_file
Contents == { <<>>, <<"x">>, <<"y", "z">> }

\* unit names handed to run_specific_bean_test
TestNames == { <<"UserService">>, <<"NoSuchBean">> }

\* agent names handed to send_message: the coordinator and a worker
AgentNames == { <<"Manager">>, <<"UserService">> }

\* message texts handed to send_message
Messages == { <<"add a method">>, <<"done">> }

\* request texts handed to process_change_request
Requests == { <<"add order history">> }

\* ---------------------------------------------------- specifications

\* no unit file is being read
DocIdle ==
    /\ file_content = <<>>
    /\ doc_comment = <<>>
    /\ doc_pc = "done"

\* the loader and the factory before __init__ runs, on an empty tree
SetupIdle ==
    /\ tree = <<>>
    /\ beans = <<>>
    /\ workers = <<>>
    /\ setup_pc = "new"

\* BEANS_DIR and the directories above it exist, and so does the root
InitialDirs == {SubSeq(BEANS_DIR, 1, k) : k \in 1..Len(BEANS_DIR)} \cup {Root}

\* the units directory with no file in it
FsIdle ==
    /\ dirs = InitialDirs
    /\ files = <<>>

\* nothing posted, nothing submitted, no tool called
MsgIdle ==
    /\ channel = <<>>
    /\ submitted = <<>>

NoCalls ==
    /\ tool_result = NoCall
    /\ tool_calls = 0

\* SpecDoc: QuarkusBean.read_file on every unit file text

DocInit ==
    /\ file_content \in Strs(DocChars, MaxLen)
    /\ doc_comment = <<>>
    /\ doc_pc = "start"
    /\ SetupIdle /\ FsIdle /\ MsgIdle /\ NoCalls

DocNext == read_file

SpecDoc == DocInit /\ [][DocNext]_vars

\* SpecSetup: EncaptWorkforce.__init__ on every tree of units

SetupInit ==
    /\ \E ps \in SUBSET Places :
          /\ Cardinality(ps) <= MaxFiles
          /\ tree \in [ps -> WalkContents]
    /\ beans = <<>>
    /\ workers = <<>>
    /\ setup_pc = "new"
    /\ DocIdle /\ FsIdle /\ MsgIdle /\ NoCalls

SetupNext ==
    \/ _load_beans
    \/ _setup_workforce

SpecSetup == SetupInit /\ [][SetupNext]_vars

\* SpecFs: the file and test tools, called in any order

FsInit ==
    /\ FsIdle /\ NoCalls /\ MsgIdle /\ DocIdle /\ SetupIdle

FsNext ==
    \/ /\ tool_calls < MaxCalls
       /\ \E n \in FileNames, c \in Contents, e \in WriteEnvs :
             write_file(n, c, e)
    \/ /\ tool_calls < MaxCalls
       /\ \E n \in DirNames, e \in MkdirEnvs : create_directory(n, e)
    \/ /\ tool_calls < MaxCalls
       /\ \E e \in RunEnvs : run_all_bean_tests(e)
    \/ /\ tool_calls < MaxCalls
       /\ \E n \in TestNames, e \in RunEnvs : run_specific_bean_test(n, e)

SpecFs == FsInit /\ [][FsNext]_vars

\* SpecMsg: send_message and process_change_request, with the engine
\* consuming what is on the channel

MsgInit ==
    /\ MsgIdle /\ NoCalls /\ FsIdle /\ DocIdle /\ SetupIdle

MsgNext ==
    \/ /\ tool_calls < MaxMsgCalls
       /\ \E to \in AgentNames, from \in AgentNames, m \in Messages :
             send_message(to, from, m)
    \/ /\ tool_calls < MaxMsgCalls
       /\ \E r \in Requests : process_change_request(r)
    \/ engine_consume
    \/ engine_finish

SpecMsg == MsgInit /\ [][MsgNext]_vars

\* ------------------------------------------------------------- claims

\* the last step was a call of the tool or driver operation op
Called(op) == tool_calls' = tool_calls + 1 /\ tool_result'.op = op

\* C1: write_file with a name that does not end in '.kt' returns
\* 'Error: Only .kt files are allowed.' and leaves the file system as it
\* was: no file or directory is created, truncated or modified.
C1_RejectsNonKt ==
    [][(Called("write_file")
        /\ ~EndsWith(tool_result'.args[1], KtSuffix))
       => /\ tool_result'.outcome = "returned"
          /\ tool_result'.text = OnlyKt
          /\ tool_result'.fill = <<>>
          /\ files' = files
          /\ dirs' = dirs]_vars

\* a rejected write_file in a file system that already holds a file
C1_Witness ==
    /\ tool_result.op = "write_file"
    /\ ~EndsWith(tool_result.args[1], KtSuffix)
    /\ tool_result.text = OnlyKt
    /\ DOMAIN files # {}

\* index of the first open marker, -1 when there is none
FirstOpen(content) == Find(content, OpenMarker, 0)

\* index of the first close marker that follows the first open marker
\* (it starts at or after the open marker's end), -1 when there is none
CloseAfterOpen(content) ==
    IF FirstOpen(content) = -1 THEN -1
    ELSE Find(content, CloseMarker, FirstOpen(content) + Len(OpenMarker))

\* a well-formed doc block: an open marker followed later by a close
\* marker
WellFormed(content) == CloseAfterOpen(content) # -1

\* C2: for a text with a well-formed doc block, extraction returns
\* exactly the trimmed block delimited by the first open marker and the
\* close marker that follows it: nothing before the open marker and
\* nothing after that close marker.
C2_DocBlockExact ==
    (doc_pc = "done" /\ WellFormed(file_content)) =>
        doc_comment = Strip(Slice(file_content, FirstOpen(file_content),
                                  CloseAfterOpen(file_content) + 2))

\* C3: for a text with no open marker, no close marker, or no close
\* marker after the open marker (a close marker that only overlaps the
\* open marker, as in '/**/', included), extraction returns ''.
C3_NoBlockEmpty ==
    (doc_pc = "done" /\ ~WellFormed(file_content)) => doc_comment = <<>>

\* the workers besides the coordinator, which is registered first
BeanWorkers == Tail(workers)

\* C4: after setup the workers besides 'Manager' correspond 1:1 to the
\* loaded units: one worker per '.kt' file found, the set of worker
\* names is the set of unit names, and no two workers share a name.
C4_WorkersOneToOne ==
    setup_pc = "ready" =>
        /\ Len(BeanWorkers) = Cardinality(AllMatching)
        /\ {BeanWorkers[i].description : i \in DOMAIN BeanWorkers}
              = {beans[i].name : i \in DOMAIN beans}
        /\ \A i, j \in DOMAIN BeanWorkers :
              i # j => BeanWorkers[i].description
                          # BeanWorkers[j].description

\* seq without its i-th element
Without(seq, i) ==
    [k \in 1..(Len(seq) - 1) |-> IF k < i THEN seq[k] ELSE seq[k + 1]]

\* C5: the peer list in the prompt of the worker built for unit u holds
\* the 'name: doc' entry of every loaded unit other than u exactly once,
\* and no entry for u itself.
C5_PeersAreTheOthers ==
    setup_pc = "ready" =>
        \A i \in DOMAIN beans :
            workers[i + 1].peers
                = Join(Entries(Without(beans, i)), <<",", " ">>)

\* the four tools that must not raise
GuardedTools ==
    {"write_file", "create_directory", "run_all_bean_tests",
     "run_specific_bean_test"}

\* C6: write_file, create_directory, run_all_bean_tests and
\* run_specific_bean_test never raise past the tool boundary: whatever
\* the file or subprocess operation does, the call returns a string.
C6_ToolsNeverRaise ==
    tool_result.op \in GuardedTools => tool_result.outcome = "returned"

\* sub occurs somewhere in s
Embeds(s, sub) == \E i \in 0..(Len(s) - Len(sub)) : OccursAt(s, sub, i)

beans_dir_slash(name) ==
    [start |-> Cwd, comps |-> BEANS_DIR \o Split(name, "/")]

\* the file named '<BEANS_DIR>/<name>' in the file system ds, fs
AtBeansDir(name, ds, fs) ==
    Lookup(beans_dir_slash(name).start, beans_dir_slash(name).comps, ds, fs)

\* C8: a successful write_file(name, c) leaves the file
\* <BEANS_DIR>/<name> holding exactly c, whether it existed before or
\* not (so a read after several writes returns the last one's content),
\* and every other file unchanged.
C8_WriteThenRead ==
    [][(Called("write_file") /\ tool_result'.text = WroteOk)
       => LET at == AtBeansDir(tool_result'.args[1], dirs', files')
          IN  /\ at.err = ""
              /\ at.loc \in DOMAIN files'
              /\ files'[at.loc] = tool_result'.args[2]
              /\ \A p \in DOMAIN files :
                    p # at.loc => p \in DOMAIN files'
                                  /\ files'[p] = files[p]]_vars

\* the resolved path p lies inside BEANS_DIR
InsideBeansDir(p) ==
    /\ Len(p) > Len(BEANS_DIR)
    /\ SubSeq(p, 1, Len(BEANS_DIR)) = BEANS_DIR

\* C9: write_file is confined to the units directory: every file it
\* creates or overwrites lies inside BEANS_DIR.
C9_WritesConfined == \A p \in DOMAIN files : InsideBeansDir(p)

\* C10: task ids are fixed per kind: every root task has the id
\* 'change_request'; a message task has the id
\* 'inter_agent_message_<to>', so two messages carry the same id exactly
\* when they have the same recipient, whatever their senders and
\* contents; a message id is never the root task's id.
C10_IdsPerKind ==
    /\ \A i \in DOMAIN submitted : submitted[i].id = ChangeRequestId
    /\ \A i \in DOMAIN channel :
          channel[i].task.id = InterAgentPrefix \o channel[i].assignee_id
    /\ \A i, j \in DOMAIN channel :
          (channel[i].assignee_id = channel[j].assignee_id)
             <=> (channel[i].task.id = channel[j].task.id)
    /\ \A i \in DOMAIN channel, j \in DOMAIN submitted :
          channel[i].task.id # submitted[j].id

\* two messages wait for the same recipient, from different senders and
\* with different contents, under one id, beside a root task
C10_Witness ==
    /\ submitted # <<>>
    /\ \E i, j \in DOMAIN channel :
          /\ i # j
          /\ channel[i].status = "enqueued"
          /\ channel[j].status = "enqueued"
          /\ channel[i].assignee_id = channel[j].assignee_id
          /\ channel[i].publisher_id # channel[j].publisher_id
          /\ channel[i].task.content # channel[j].task.content
          /\ channel[i].task.id = channel[j].task.id
====
